---- MODULE Spec2Model ----
(***************************************************************************)
(* Model of the stepper-motor pulse sequencer (step_motor.py), the         *)
(* parallel-port write primitive (parallel_port.py) and the Thermo Jarrell *)
(* Ash monochromator controller (thermo_jarrell_ash.py).                   *)
(*                                                                         *)
(* The program is single-threaded Python.  One top-level call runs at a    *)
(* time; pc walks the sequencer loop of StepMotor.clockwise /              *)
(* counterclockwise one statement group at a time, and pending holds the   *)
(* calls the running ThermoJarrellAsh method has still to make.  An        *)
(* exception unwinds the whole top-level call.                             *)
(*                                                                         *)
(* Wavelengths and step counts that come from wavelengths are rationals    *)
(* with the fixed denominator WlDen; they are stored as numerators.        *)
(***************************************************************************)
EXTENDS Integers, Sequences, FiniteSets, TLC

VARIABLES
    serial_number,     \* ThermoJarrellAsh.serial_number; 0: no controller, a bare StepMotor
    attrs,             \* instance attributes of the controller set so far
    step_factor,       \* ThermoJarrellAsh.step_factor (meaningful iff "step_factor" \in attrs)
    has_motor,         \* a StepMotor object exists
    step_time,         \* StepMotor.step_time, in milliseconds
    parallel_pin_set,  \* StepMotor.parallel_pin_set
    address,           \* ParallelPort.address
    port,              \* value last written to the port by Out32; <<>> before any write
    op,                \* the top-level call that is running or ran last
    display_wl,        \* argument display_wl (numerator over WlDen)
    target_wl,         \* argument target_wl / spectral_start (numerator over WlDen)
    spectral_step,     \* argument spectral_step (numerator over WlDen)
    cal,               \* local cal / start / step of the controller method (numerator over WlDen)
    pending,           \* calls the running controller method has still to make
    calls,             \* history: the calls entered during the top-level call
    method,            \* the sequencer method that is running or ran last
    number_of_steps,   \* argument number_of_steps (numerator over WlDen)
    step_number,       \* local step_number
    pin_index,         \* local pin_index / reverse_pin_index (0-based, as in the code)
    pin,               \* local pin
    pc,                \* "idle", "call", "while", "pin", "sleep"
    error,             \* the exception that ended the top-level call, or "none"
    writes,            \* history: the Out32 writes of the top-level call
    holds,             \* history: the number of time.sleep(step_time) of the top-level call
    constructed,       \* history: the motor's fields and the step factor as first set
    keep_prev,         \* whether the history prev is kept
    prev,              \* history: the direct sequencer call that ran just before this
                       \* direct sequencer call, or <<>>
    motors,            \* two StepMotor objects bound to one port address: for each its
                       \* parallel_pin_set, the locals of its running sequencer method
                       \* and its position ("idle", "while", "pin", "sleep")
    shared_port,       \* the value last written at the address the two motors share
    last_write,        \* history: the motor and the pin of the last write at that address
    level_writes,      \* history: the Out32 writes of the last all_pin_low / all_pin_high
    spex,              \* spex500.py: the Spex500 driver in run, the controller's motor and
                       \* the history of the run's F0 commands and E answers, or <<>>
    lake,              \* lakeshore335.py: the LakeShore driver in temperature_check and
                       \* the sample's temperature (numerators over LakeDen), or <<>>
    konica             \* konica_minolta.py: the arguments, the instrument's answers and
                       \* the result of the last KonicaMinolta.start_up, or <<>>

vars == <<serial_number, attrs, step_factor, has_motor, step_time, parallel_pin_set,
          address, port, op, display_wl, target_wl, spectral_step, cal, pending, calls,
          method, number_of_steps, step_number, pin_index, pin, pc, error, writes, holds,
          constructed, keep_prev, prev, motors, shared_port, last_write,
          level_writes, spex, lake, konica>>

\* the fields no sequencer statement assigns
fixed == <<serial_number, attrs, step_factor, has_motor, step_time, address, constructed,
           keep_prev>>
device == <<fixed, parallel_pin_set>>
args == <<display_wl, target_wl, spectral_step>>
locals == <<method, number_of_steps, step_number, pin_index, pin>>
\* the other instruments
instruments == <<spex, lake, konica>>
\* the one controller and its port
single == <<serial_number, attrs, step_factor, has_motor, step_time, parallel_pin_set,
            address, port, op, display_wl, target_wl, spectral_step, cal, pending, calls,
            method, number_of_steps, step_number, pin_index, pin, pc, error, writes, holds,
            constructed, keep_prev, prev, level_writes>>
\* the two motors on one port
sharing == <<motors, shared_port, last_write>>

-----------------------------------------------------------------------------
(* Bounds of the model *)

\* direct sequencer calls take number_of_steps in -1 .. MaxSteps
MaxSteps == 9

\* wavelengths are multiples of 1 / WlDen
WlDen == 64

\* each of the two motors on one port takes number_of_steps in 0 .. MaxSharedSteps
MaxSharedSteps == 4

\* Spex500.run takes wavelengths that are multiples of 1 / SpexDen
SpexDen == 8000

\* a move of the Spex motor ends before more than MaxPolls busy answers
MaxPolls == 2

\* LakeShore temperatures are multiples of 1 / LakeDen
LakeDen == 20

\* the sample's temperature stays within MaxDrift / LakeDen of 300 K
MaxDrift == 12

-----------------------------------------------------------------------------
(* parallel_port.py *)

addr_0x378 == 888
addr_0x37f == 895
\* an address that is neither of the two (the docstring: addresses vary)
addr_other == 890

pin_set_0x378 == <<2, 3, 4, 5, 6, 7, 8, 9>>
pin_set_0x37f == <<1, 14, 16, 17>>
dec_0x378 == <<1, 2, 4, 8, 16, 32, 64, 128>>
dec_0x37f == <<10, 9, 15, 13>>

Range(s) == {s[i] : i \in 1..Len(s)}

\* list.index: the position of the first occurrence (1-based here); 0 when absent,
\* where Python raises ValueError
Index(s, x) ==
    IF x \in Range(s) THEN CHOOSE i \in 1..Len(s) : s[i] = x /\ \A j \in 1..(i - 1) : s[j] # x
    ELSE 0

\* The docstring's map of the DATA pins: decimal value -> the pins at high level
table_0x378 ==
    [d \in {0, 1, 2, 4, 8, 16, 32, 64, 128, 255} |->
        CASE d = 0 -> {}
          [] d = 1 -> {2}
          [] d = 2 -> {3}
          [] d = 4 -> {4}
          [] d = 8 -> {5}
          [] d = 16 -> {6}
          [] d = 32 -> {7}
          [] d = 64 -> {8}
          [] d = 128 -> {9}
          [] d = 255 -> {2, 3, 4, 5, 6, 7, 8, 9}]

\* The docstring's map of the CONTROL pins: row dec + 1 -> the pins at high level
table_0x37f ==
    << {1, 14, 17}, {14, 17}, {1, 17}, {17},
       {1, 14, 16, 17}, {14, 16, 17}, {1, 16, 17}, {16, 17},
       {1, 14}, {14}, {1}, {},
       {1, 14, 16}, {14, 16}, {1, 16}, {16} >>

\* the pins the documented tables put high for value dec written at address a
HighPins(a, dec) ==
    IF a = addr_0x378 THEN table_0x378[dec] ELSE table_0x37f[dec + 1]

\* the pin set of the port at address a (empty for an address the class does not know)
PortPins(a) ==
    IF a = addr_0x378 THEN Range(pin_set_0x378)
    ELSE IF a = addr_0x37f THEN Range(pin_set_0x37f)
    ELSE {}

\* the value all_pin_low writes at address a
AllPinLowValue(a) == IF a = addr_0x378 THEN 0 ELSE 11

\* the value all_pin_high writes at address a
AllPinHighValueAsLow(a) == IF a = addr_0x378 THEN 0 ELSE 11

AllPinHighValue(a) == IF a = addr_0x378 THEN 255 ELSE 4

\* ParallelPort.pin(pin_number): <<"write", H>>, <<"raise", "ValueError">> or <<"skip">>
PinNoCheck(a, pin_number) ==
    IF a = addr_0x378 THEN
        IF Index(pin_set_0x378, pin_number) = 0 THEN <<"skip">>
        ELSE <<"write", dec_0x378[Index(pin_set_0x378, pin_number)]>>
    ELSE IF a = addr_0x37f THEN
        IF Index(pin_set_0x37f, pin_number) = 0 THEN <<"skip">>
        ELSE <<"write", dec_0x37f[Index(pin_set_0x37f, pin_number)]>>
    ELSE <<"skip">>

PinUnknownAddressRaises(a, pin_number) ==
    IF a = addr_0x378 THEN
        IF Index(pin_set_0x378, pin_number) = 0 THEN <<"raise", "ValueError">>
        ELSE <<"write", dec_0x378[Index(pin_set_0x378, pin_number)]>>
    ELSE IF a = addr_0x37f THEN
        IF Index(pin_set_0x37f, pin_number) = 0 THEN <<"raise", "ValueError">>
        ELSE <<"write", dec_0x37f[Index(pin_set_0x37f, pin_number)]>>
    ELSE <<"raise", "ValueError">>

ParallelPort_pin(a, pin_number) ==
    IF a = addr_0x378 THEN
        IF Index(pin_set_0x378, pin_number) = 0 THEN <<"raise", "ValueError">>
        ELSE <<"write", dec_0x378[Index(pin_set_0x378, pin_number)]>>
    ELSE IF a = addr_0x37f THEN
        IF Index(pin_set_0x37f, pin_number) = 0 THEN <<"raise", "ValueError">>
        ELSE <<"write", dec_0x37f[Index(pin_set_0x37f, pin_number)]>>
    ELSE <<"skip">>

-----------------------------------------------------------------------------
(* step_motor.py *)

\* the methods a StepMotor object has (its own and those of ParallelPort)
StepMotorMethods ==
    {"step", "clockwise", "counterclockwise", "pin", "all_pin_low", "all_pin_high"}

\* list(reversed(s))
ReversedShifted(s) == [i \in 1..Len(s) |-> s[((Len(s) + 1 - i) % Len(s)) + 1]]

Reversed(s) == [i \in 1..Len(s) |-> s[Len(s) + 1 - i]]

\* the list a sequencer method walks: reverse_pin_set in clockwise, pin_set in counterclockwise
TraversedForward(m, pins) == pins

Traversed(m, pins) == IF m = "clockwise" THEN Reversed(pins) ELSE pins

\* an exception leaves the top-level call
Raise(e) ==
    /\ error' = e
    /\ pc' = "idle"
    /\ pending' = <<>>

\* a sequencer method returns to its caller
Return ==
    /\ pc' = IF pending = <<>> THEN "idle" ELSE "call"
    /\ UNCHANGED <<error, pending>>

\* a top-level call starts: the histories of the previous call are dropped
Begin(o) ==
    /\ pc = "idle"
    /\ op' = o
    /\ writes' = <<>>
    /\ holds' = 0
    /\ prev' = IF keep_prev /\ {o, op} \subseteq {"clockwise", "counterclockwise"}
               THEN [op |-> op, n |-> number_of_steps, error |-> error,
                     pins |-> [k \in 1..Len(writes) |-> writes[k].pin]]
               ELSE <<>>
    /\ UNCHANGED <<sharing, level_writes, instruments>>

\* self.parallel_pin_set after the statements before the loop: list(reversed(...))
\* builds a new list and pin_set = self.parallel_pin_set is only read
StoredPinSetReversedInPlace(m, pins) == IF m = "clockwise" THEN Reversed(pins) ELSE pins

StoredPinSetPopped(m, pins) == IF pins = <<>> THEN pins ELSE SubSeq(pins, 1, Len(pins) - 1)

StoredPinSet(m, pins) == pins

\* the statements of clockwise / counterclockwise before the loop; rest are the calls
\* the caller makes afterwards, prior the calls it has made
EnterKeepPhase(m, n, rest, prior) ==
    /\ method' = m
    /\ number_of_steps' = n
    /\ step_number' = 0
    /\ calls' = Append(prior, [m |-> m, n |-> n])
    /\ parallel_pin_set' = parallel_pin_set
    /\ IF Len(Traversed(m, parallel_pin_set)) = 0
       THEN /\ pin' = 0
            /\ pin_index' = 0
            /\ Raise("IndexError")
       ELSE /\ IF method = m /\ error = "none"
               THEN UNCHANGED <<pin_index, pin>>
               ELSE pin_index' = 0 /\ pin' = Traversed(m, parallel_pin_set)[1]
            /\ pc' = "while"
            /\ pending' = rest
            /\ error' = "none"

Enter(m, n, rest, prior) ==
    /\ method' = m
    /\ number_of_steps' = n
    /\ step_number' = 0
    /\ pin_index' = 0
    /\ calls' = Append(prior, [m |-> m, n |-> n])
    /\ parallel_pin_set' = StoredPinSet(m, parallel_pin_set)
    /\ IF Len(Traversed(m, parallel_pin_set)) = 0
       THEN /\ pin' = 0
            /\ Raise("IndexError")
       ELSE /\ pin' = Traversed(m, parallel_pin_set)[1]
            /\ pc' = "while"
            /\ pending' = rest
            /\ error' = "none"

\* motor.clockwise(n) / motor.counterclockwise(n) called directly
SequencerCall(m, n) ==
    /\ has_motor
    /\ Begin(m)
    /\ Enter(m, n * WlDen, <<>>, <<>>)
    /\ cal' = 0
    /\ display_wl' = 0 /\ target_wl' = 0 /\ spectral_step' = 0
    /\ UNCHANGED <<fixed, port>>

clockwise(n) == SequencerCall("clockwise", n)

counterclockwise(n) == SequencerCall("counterclockwise", n)

\* the loop test: while step_number < number_of_steps
LoopTestOffByOne == step_number * WlDen <= number_of_steps

LoopTest == step_number * WlDen < number_of_steps

WhileNoProgress ==
    /\ pc = "while"
    /\ IF LoopTest
       THEN UNCHANGED <<pc, error, pending>>
       ELSE Return
    /\ UNCHANGED <<device, port, op, prev, sharing, level_writes, instruments, args, cal, calls, locals, writes, holds>>

While ==
    /\ pc = "while"
    /\ IF LoopTest
       THEN pc' = "pin" /\ UNCHANGED <<error, pending>>
       ELSE Return
    /\ UNCHANGED <<device, port, op, prev, sharing, level_writes, instruments, args, cal, calls, locals, writes, holds>>

\* self.step(pin): super().pin(i)
Pin ==
    /\ pc = "pin"
    /\ LET r == ParallelPort_pin(address, pin) IN
         CASE r[1] = "write" ->
                /\ port' = <<r[2]>>
                /\ writes' = Append(writes, [pin |-> pin, val |-> r[2], via |-> method])
                /\ pc' = "sleep"
                /\ UNCHANGED <<error, pending>>
           [] r[1] = "skip" ->
                /\ pc' = "sleep"
                /\ UNCHANGED <<port, writes, error, pending>>
           [] r[1] = "raise" ->
                /\ Raise(r[2])
                /\ UNCHANGED <<port, writes>>
    /\ UNCHANGED <<device, op, prev, sharing, level_writes, instruments, args, cal, calls, locals, holds>>

\* the wraparound test of the loop body: if pin_index <= 3
IndexInRangeOffByOne(i) == i <= 2

IndexInRange(i) == i <= 3

\* self.step(pin): time.sleep(step_time); then the rest of the loop body
Sleep ==
    /\ pc = "sleep"
    /\ holds' = holds + 1
    /\ step_number' = step_number + 1
    /\ LET seq == Traversed(method, parallel_pin_set)
           i == pin_index + 1
       IN IF IndexInRange(i)
          THEN IF i + 1 <= Len(seq)
               THEN /\ pin_index' = i
                    /\ pin' = seq[i + 1]
                    /\ pc' = "while"
                    /\ UNCHANGED <<error, pending>>
               ELSE /\ pin_index' = i
                    /\ pin' = pin
                    /\ Raise("IndexError")
          ELSE /\ pin_index' = 0
               /\ pin' = seq[1]
               /\ pc' = "while"
               /\ UNCHANGED <<error, pending>>
    /\ UNCHANGED <<device, port, op, prev, sharing, level_writes, instruments, args, cal, calls, method, number_of_steps, writes>>

-----------------------------------------------------------------------------
(* thermo_jarrell_ash.py *)

\* the device dictionaries; pulse width in milliseconds
sn_6902NegativeFactor ==
    [step_factor |-> -24, pin_sequence |-> <<6, 7, 8, 9>>, pulse_width |-> 4]

sn_6902 == [step_factor |-> 24, pin_sequence |-> <<6, 7, 8, 9>>, pulse_width |-> 4]
sn_34575 == [step_factor |-> 120, pin_sequence |-> <<3, 2, 4, 5>>, pulse_width |-> 4]

Abs(x) == IF x < 0 THEN -x ELSE x

setup_step_motor ==
    /\ serial_number # 0
    /\ Begin("setup_step_motor")
    /\ IF serial_number = 6902
       THEN /\ step_factor' = sn_6902.step_factor
            /\ step_time' = sn_6902.pulse_width
            /\ parallel_pin_set' = sn_6902.pin_sequence
            /\ address' = addr_0x378
            /\ has_motor' = TRUE
            /\ attrs' = attrs \cup {"step_factor", "excitation_motor"}
            /\ constructed' = IF has_motor THEN constructed
                              ELSE [pins |-> sn_6902.pin_sequence,
                                    step_time |-> sn_6902.pulse_width,
                                    address |-> addr_0x378,
                                    step_factor |-> sn_6902.step_factor]
       ELSE IF serial_number = 34575
       THEN /\ step_factor' = sn_34575.step_factor
            /\ step_time' = sn_34575.pulse_width
            /\ parallel_pin_set' = sn_34575.pin_sequence
            /\ address' = addr_0x378
            /\ has_motor' = TRUE
            /\ attrs' = attrs \cup {"step_factor", "excitation_motor"}
            /\ constructed' = IF has_motor THEN constructed
                              ELSE [pins |-> sn_34575.pin_sequence,
                                    step_time |-> sn_34575.pulse_width,
                                    address |-> addr_0x378,
                                    step_factor |-> sn_34575.step_factor]
       ELSE UNCHANGED <<step_factor, step_time, parallel_pin_set, address, has_motor, attrs,
                        constructed>>
    /\ error' = "none"
    /\ calls' = <<>>
    /\ cal' = 0
    /\ display_wl' = 0 /\ target_wl' = 0 /\ spectral_step' = 0
    /\ UNCHANGED <<serial_number, keep_prev, port, pending, locals, pc>>

\* the calls of the branches of calibration and start_up, for the local cal / start
MoveCallsSwapped(c) ==
    IF c > 0
    THEN <<[m |-> "anticlockwise", n |-> Abs(c)], [m |-> "backlash", n |-> 0]>>
    ELSE IF c < 0 THEN <<[m |-> "clockwise", n |-> c]>>
    ELSE <<>>

MoveCallsNoElif(c) ==
    IF c < 0
    THEN <<[m |-> "anticlockwise", n |-> Abs(c)], [m |-> "backlash", n |-> 0]>>
    ELSE <<[m |-> "clockwise", n |-> c]>>

MoveCalls(c) ==
    IF c < 0
    THEN <<[m |-> "anticlockwise", n |-> Abs(c)], [m |-> "backlash", n |-> 0]>>
    ELSE IF c > 0 THEN <<[m |-> "clockwise", n |-> c]>>
    ELSE <<>>

\* the calls of backlash: backsteps = 5 * self.step_factor
BacklashCalls(sf) ==
    <<[m |-> "anticlockwise", n |-> 5 * sf * WlDen], [m |-> "clockwise", n |-> 5 * sf * WlDen]>>

\* a controller method starts: o with arguments d, t, s; amount is its local cal /
\* start / step and todo the calls its body makes
Method(o, d, t, s, amount, todo) ==
    /\ serial_number # 0
    /\ Begin(o)
    /\ display_wl' = d /\ target_wl' = t /\ spectral_step' = s
    /\ calls' = <<>>
    /\ method' = "" /\ number_of_steps' = 0 /\ step_number' = 0
    /\ pin_index' = 0 /\ pin' = 0
    /\ IF "step_factor" \notin attrs
       THEN /\ cal' = 0
            /\ Raise("AttributeError")
       ELSE /\ cal' = amount
            /\ pending' = todo
            /\ pc' = IF todo = <<>> THEN "idle" ELSE "call"
            /\ error' = "none"
    /\ UNCHANGED <<device, port>>

\* cal = (target_wl - display_wl) * self.step_factor, for the difference x: the
\* product is used as it is, a fraction included
AmountRounded(x) == ((2 * x * step_factor + WlDen) \div (2 * WlDen)) * WlDen

Amount(x) == x * step_factor

calibration(d, t) ==
    Method("calibration", d, t, 0, Amount(t - d), MoveCalls(Amount(t - d)))

start_up(d, t) ==
    Method("start_up", d, t, 0, Amount(t - d), MoveCalls(Amount(t - d)))

ForwardCalls(c) == <<[m |-> "clockwise", n |-> c]>>

BackwardCalls(c) == <<[m |-> "anticlockwise", n |-> c], [m |-> "backlash", n |-> 0]>>

step_forward(s) ==
    Method("step_forward", 0, 0, s, Amount(s), ForwardCalls(Amount(s)))

step_backward(s) ==
    Method("step_backward", 0, 0, s, Amount(s), BackwardCalls(Amount(s)))

JustBacklash == <<[m |-> "backlash", n |-> 0]>>

backlash == Method("backlash", 0, 0, 0, 0, JustBacklash)

\* the running controller method makes its next call
Call ==
    /\ pc = "call"
    /\ LET c == Head(pending)
           rest == Tail(pending)
       IN IF c.m = "backlash"
          THEN /\ calls' = Append(calls, c)
               /\ pending' = BacklashCalls(step_factor) \o rest
               /\ pc' = "call"
               /\ UNCHANGED <<error, locals, parallel_pin_set>>
          ELSE IF "excitation_motor" \in attrs /\ c.m \in StepMotorMethods
          THEN Enter(c.m, c.n, rest, calls)
          ELSE /\ Raise("AttributeError")
               /\ UNCHANGED <<calls, locals, parallel_pin_set>>
    /\ UNCHANGED <<fixed, port, op, prev, sharing, level_writes, instruments, args, cal, writes, holds>>

\* motor.all_pin_low() / motor.all_pin_high(): one Out32 at a known address, nothing
\* at any other
AllPin(o, value) ==
    /\ has_motor
    /\ pc = "idle"
    /\ op' = o
    /\ holds' = 0
    /\ prev' = <<>>
    /\ error' = "none"
    /\ calls' = <<>>
    /\ writes' = <<>>
    /\ IF address \in {addr_0x378, addr_0x37f}
       THEN /\ port' = <<value>>
            /\ level_writes' = <<value>>
       ELSE /\ port' = port
            /\ level_writes' = <<>>
    /\ UNCHANGED <<device, sharing, instruments, args, cal, pending, locals, pc>>

all_pin_low == AllPin("all_pin_low", AllPinLowValue(address))

all_pin_high == AllPin("all_pin_high", AllPinHighValue(address))

-----------------------------------------------------------------------------
(* Two StepMotor objects bound to the same port address, their statements interleaved *)

Motors == {1, 2}

\* the address setup_step_motor binds the motor of either instrument to
SharedAddress == addr_0x378

\* the port after Out32(address, H) when old was its value: the whole value is replaced
Out32Merged(old, H) ==
    LET o == IF old = <<>> THEN 0 ELSE old[1]
        b(k) == IF (o \div (2 ^ k)) % 2 = 1 \/ (H \div (2 ^ k)) % 2 = 1 THEN 2 ^ k ELSE 0
    IN <<b(0) + b(1) + b(2) + b(3) + b(4) + b(5) + b(6) + b(7)>>

Out32(old, H) == <<H>>

\* motor i enters clockwise(n) / counterclockwise(n): the statements before the loop
MotorEnter(i, m, n) ==
    /\ motors[i].pc = "idle"
    /\ motors' = [motors EXCEPT ![i] =
                    [@ EXCEPT !.method = m,
                              !.number_of_steps = n,
                              !.step_number = 0,
                              !.pin_index = 0,
                              !.pin = Traversed(m, motors[i].parallel_pin_set)[1],
                              !.error = "none",
                              !.pc = "while"]]
    /\ UNCHANGED <<shared_port, last_write, single, instruments>>

\* motor i: while step_number < number_of_steps
MotorWhile(i) ==
    /\ motors[i].pc = "while"
    /\ motors' = [motors EXCEPT ![i].pc =
                    IF motors[i].step_number < motors[i].number_of_steps
                    THEN "pin" ELSE "idle"]
    /\ UNCHANGED <<shared_port, last_write, single, instruments>>

\* motor i: self.step(pin): super().pin(i)
MotorPin(i) ==
    /\ motors[i].pc = "pin"
    /\ LET r == ParallelPort_pin(SharedAddress, motors[i].pin) IN
         CASE r[1] = "write" ->
                /\ shared_port' = Out32(shared_port, r[2])
                /\ last_write' = [motor |-> i, pin |-> motors[i].pin]
                /\ motors' = [motors EXCEPT ![i].pc = "sleep"]
           [] r[1] = "skip" ->
                /\ motors' = [motors EXCEPT ![i].pc = "sleep"]
                /\ UNCHANGED <<shared_port, last_write>>
           [] r[1] = "raise" ->
                /\ motors' = [motors EXCEPT ![i].pc = "idle", ![i].error = r[2]]
                /\ UNCHANGED <<shared_port, last_write>>
    /\ UNCHANGED <<single, instruments>>

\* motor i: self.step(pin): time.sleep(step_time); then the rest of the loop body
MotorSleep(i) ==
    /\ motors[i].pc = "sleep"
    /\ LET seq == Traversed(motors[i].method, motors[i].parallel_pin_set)
           k == motors[i].pin_index + 1
       IN motors' = [motors EXCEPT ![i] =
                       IF IndexInRange(k)
                       THEN IF k + 1 <= Len(seq)
                            THEN [@ EXCEPT !.step_number = @ + 1, !.pin_index = k,
                                           !.pin = seq[k + 1], !.pc = "while"]
                            ELSE [@ EXCEPT !.step_number = @ + 1, !.pin_index = k,
                                           !.error = "IndexError", !.pc = "idle"]
                       ELSE [@ EXCEPT !.step_number = @ + 1, !.pin_index = 0,
                                      !.pin = seq[1], !.pc = "while"]]
    /\ UNCHANGED <<shared_port, last_write, single, instruments>>

-----------------------------------------------------------------------------
(* spex500.py *)

\* the steps of the backlash move of run
Backlash == 20000

\* round(p / q) as Python 3 rounds: to the nearest integer, a tie to the even one
Round(p, q) ==
    LET fl == p \div q
        rem == p % q
    IN IF 2 * rem < q THEN fl
       ELSE IF 2 * rem > q THEN fl + 1
       ELSE IF fl % 2 = 0 THEN fl ELSE fl + 1

\* the controller's answer to "H0": the confirmation, then the motor step position
AnswerH0(position) == <<"o", position>>

\* the controller's answer to "E": the confirmation, then q while the motor is busy
AnswerE(busy) == IF busy THEN "oq" ELSE "oz"

\* the controller takes "F0,<steps>": the motor starts a relative move
MoveRelative(steps) ==
    [spex EXCEPT !.busy = TRUE, !.moving = steps,
                 !.log = Append(@, [cmd |-> "F0", steps |-> steps])]

\* run(F), F = f / SpexDen: reads the position, computes the steps to run and
\* commands the first (or only) relative move
Spex500_run(f) ==
    /\ spex.pc = "idle"
    /\ LET Houti == AnswerH0(spex.position)
           Hinti == Houti[2]
           Froundi == Round(f * 4000, SpexDen)
           Fin == Froundi - Hinti
       IN spex' = [spex EXCEPT
                      !.Hinti = Hinti, !.Froundi = Froundi, !.polls = 0,
                      !.busy = TRUE,
                      !.moving = IF Fin < 0 THEN Fin - Backlash ELSE Fin,
                      !.log = <<[cmd |-> "F0",
                                 steps |-> IF Fin < 0 THEN Fin - Backlash ELSE Fin]>>,
                      !.pc = IF Fin < 0 THEN "busy_status_back" ELSE "busy_status"]
    /\ UNCHANGED <<single, sharing, lake, konica>>

\* busy_status: the loop ends on the answer "oz"
NotBusyAnyAnswer(status) == TRUE

NotBusy(status) == status = "oz"

\* busy_status: one query of "E"
busy_status ==
    /\ spex.pc \in {"busy_status_back", "busy_status"}
    /\ spex.busy => spex.polls < MaxPolls
    /\ LET status == AnswerE(spex.busy) IN
         spex' = [spex EXCEPT
                    !.log = Append(@, [cmd |-> "E", status |-> status]),
                    !.polls = IF NotBusy(status) THEN 0 ELSE @ + 1,
                    !.pc = IF NotBusy(status)
                           THEN (IF spex.pc = "busy_status_back" THEN "backlash" ELSE "idle")
                           ELSE @]
    /\ UNCHANGED <<single, sharing, lake, konica>>

\* run, after the first busy_status of a move to a lower position: the return move
Spex500_backlash ==
    /\ spex.pc = "backlash"
    /\ spex' = [MoveRelative(Backlash) EXCEPT !.pc = "busy_status"]
    /\ UNCHANGED <<single, sharing, lake, konica>>

\* the controller: the motor ends its move
MotorStops ==
    /\ spex # <<>>
    /\ spex.busy
    /\ spex' = [spex EXCEPT !.busy = FALSE, !.position = @ + spex.moving, !.moving = 0]
    /\ UNCHANGED <<single, sharing, lake, konica>>

-----------------------------------------------------------------------------
(* lakeshore335.py *)

\* round(x, 1) of x = t / LakeDen, in tenths
RoundToTenth(t) == Round(t * 10, LakeDen)

\* round(x) of x = t / LakeDen, in tenths
RoundToUnit(t) == Round(t, LakeDen) * 10

\* the outcomes of abs(roundTsp - roundT) > 0.1 for values in tenths: the float
\* difference of two values one tenth apart falls on either side of the float 0.1
Far(a, b) ==
    IF Abs(a - b) > 1 THEN {TRUE}
    ELSE IF Abs(a - b) = 1 THEN {TRUE, FALSE}
    ELSE {FALSE}

\* setpoint(sp)
setpoint(sp) ==
    /\ lake.pc = "idle"
    /\ lake' = [lake EXCEPT !.setp = sp]
    /\ UNCHANGED <<single, sharing, spex, konica>>

\* temperature_check, up to the loop: SETP? 1, KRDG? B and the two round(., 1)
temperature_check ==
    /\ lake.pc = "idle"
    /\ lake' = [lake EXCEPT !.Tsp = lake.setp,
                            !.roundTsp = RoundToTenth(lake.setp),
                            !.T = lake.sample,
                            !.roundT = RoundToTenth(lake.sample),
                            !.pc = "while"]
    /\ UNCHANGED <<single, sharing, spex, konica>>

\* the loop test and, when it holds, the loop body: KRDG? B and round(T)
LakeWhile ==
    /\ lake.pc = "while"
    /\ \E far \in Far(lake.roundTsp, lake.roundT) :
          lake' = IF far
                  THEN [lake EXCEPT !.T = lake.sample,
                                    !.roundT = RoundToUnit(lake.sample)]
                  ELSE [lake EXCEPT !.pc = "idle"]
    /\ UNCHANGED <<single, sharing, spex, konica>>

\* the sample warms or cools
SampleDrifts ==
    /\ lake # <<>>
    /\ \E d \in {-1, 1} :
          /\ Abs(lake.sample + d - 300 * LakeDen) <= MaxDrift
          /\ lake' = [lake EXCEPT !.sample = @ + d]
    /\ UNCHANGED <<single, sharing, spex, konica>>

-----------------------------------------------------------------------------
(* konica_minolta.py *)

\* the keys of the dictionaries calibration, meas_mode and response
calibration_keys == {"PRESET", "VARI."}
meas_mode_keys == {"ABS.", "DIFF."}
response_keys == {"FAST", "SLOW"}

\* the 6 bytes the instrument sends for a status code; nothing within the timeout
Reply(code) == <<code, "\r\n">>
NoReply == <<>>

\* self.ser.read(6).decode()[:4]
FirstFour(bytes) == IF bytes = NoReply THEN "" ELSE bytes[1]

\* start_up(cal, color_mode, resp), the instrument sending r1, r2 and r3 (the argument
\* cal is calib here)
KonicaMinolta_start_up(calib, color_mode, resp, r1, r2, r3) ==
    /\ konica # <<>>
    /\ LET cal_setng == FirstFour(r1)
           meas_setng == FirstFour(r2)
           resp_setng == FirstFour(r3)
       IN konica' = [cal |-> calib, color_mode |-> color_mode, resp |-> resp,
                     cal_setng |-> cal_setng, meas_setng |-> meas_setng,
                     resp_setng |-> resp_setng,
                     result |-> IF cal_setng = "OK00" /\ meas_setng = "OK00"
                                   /\ resp_setng = "OK00"
                                THEN <<"OK">>
                                ELSE <<cal_setng, cal_setng, cal_setng>>]
    /\ UNCHANGED <<single, sharing, spex, lake>>

-----------------------------------------------------------------------------
(* Inputs *)

Addresses == {addr_0x378, addr_0x37f, addr_other}

PinSets ==
    { <<2, 3, 4, 5>>, <<6, 7, 8, 9>>, <<3, 2, 4, 5>>, <<1, 14, 16, 17>>,
      <<2, 3, 10, 5>>, <<10, 3, 4, 5>>,
      <<2, 3, 4>>, <<2, 3, 4, 5, 6, 7, 8, 9>>, <<>>,
      <<6, 7>>, <<2, 3, 4, 5, 6>> }

SerialNumbers == {6902, 34575, 1}

StepCounts == (-1)..MaxSteps

\* wavelengths around 100, as numerators over WlDen: 99, 100 - 1/WlDen, 100, 100 + 1/WlDen, 101
Wavelengths == {100 * WlDen + o : o \in {-WlDen, -1, 0, 1, WlDen}}

SpectralSteps == {-WlDen, 0, 1, WlDen}

InitWith(keep) ==
    /\ keep_prev = keep
    /\ level_writes = <<>>
    /\ prev = <<>>
    /\ \/ /\ serial_number = 0
          /\ has_motor = TRUE
          /\ step_time = 5
          /\ parallel_pin_set \in PinSets
          /\ address \in Addresses
       \/ /\ serial_number \in SerialNumbers
          /\ has_motor = FALSE
          /\ step_time = 0
          /\ parallel_pin_set = <<>>
          /\ address = 0
    /\ attrs = {}
    /\ step_factor = 0
    /\ port = <<>>
    /\ op = ""
    /\ display_wl = 0 /\ target_wl = 0 /\ spectral_step = 0
    /\ cal = 0
    /\ pending = <<>>
    /\ calls = <<>>
    /\ method = ""
    /\ number_of_steps = 0
    /\ step_number = 0
    /\ pin_index = 0
    /\ pin = 0
    /\ pc = "idle"
    /\ error = "none"
    /\ writes = <<>>
    /\ holds = 0
    /\ constructed = [pins |-> parallel_pin_set, step_time |-> step_time,
                      address |-> address, step_factor |-> 0]

\* no second motor on the port, no other instrument
NoSharing ==
    /\ motors = <<>>
    /\ shared_port = <<>>
    /\ last_write = <<>>

NoSpex == spex = <<>>

NoLake == lake = <<>>

NoKonica == konica = <<>>

NoInstruments == NoSpex /\ NoLake /\ NoKonica

Init == InitWith(FALSE) /\ NoSharing /\ NoInstruments

Next ==
    \/ \E n \in StepCounts : clockwise(n)
    \/ \E n \in StepCounts : counterclockwise(n)
    \/ While
    \/ Pin
    \/ Sleep
    \/ setup_step_motor
    \/ \E d \in Wavelengths, t \in Wavelengths : calibration(d, t)
    \/ \E d \in Wavelengths, t \in Wavelengths : start_up(d, t)
    \/ \E s \in SpectralSteps : step_forward(s)
    \/ \E s \in SpectralSteps : step_backward(s)
    \/ backlash
    \/ Call
    \/ all_pin_low
    \/ all_pin_high

Spec == Init /\ [][Next]_vars

\* the statements of the running call: the interpreter keeps executing them, Out32
\* returns and time.sleep(step_time) ends
Running == While \/ Pin \/ Sleep \/ Call

\* the program with its progress: a call that has started is run on; whether and
\* when the user makes the next call is left open
LiveSpec == Init /\ [][Next]_vars /\ WF_vars(Running)

\* the program, with the history of the previous direct sequencer call kept
PairInit == InitWith(TRUE) /\ NoSharing /\ NoInstruments

PairSpec == PairInit /\ [][Next]_vars

\* the motor as StepMotor(pulse_width, pin_sequence, 0x378) makes it
NewMotor(sn) ==
    [parallel_pin_set |-> sn.pin_sequence, step_time |-> sn.pulse_width,
     method |-> "", number_of_steps |-> 0, step_number |-> 0, pin_index |-> 0, pin |-> 0,
     error |-> "none", pc |-> "idle"]

\* the motors of the two instruments, both at 0x378, and nothing written yet
SharedInit ==
    /\ InitWith(FALSE)
    /\ serial_number = 1
    /\ motors = <<NewMotor(sn_6902), NewMotor(sn_34575)>>
    /\ shared_port = <<>>
    /\ last_write = <<>>
    /\ NoInstruments

SharedStepCounts == 0..MaxSharedSteps

SharedNext ==
    \/ \E i \in Motors, m \in {"clockwise", "counterclockwise"}, n \in SharedStepCounts :
          MotorEnter(i, m, n)
    \/ \E i \in Motors : MotorWhile(i)
    \/ \E i \in Motors : MotorPin(i)
    \/ \E i \in Motors : MotorSleep(i)

\* the two motors run in their own threads, statement by statement
SharedSpec == SharedInit /\ [][SharedNext]_vars

\* motor step positions around 5 * 4000
SpexPositions == {5 * 4000 + d : d \in {-2, 0, 1}}

\* wavelengths around 5, as numerators over SpexDen
SpexWavelengths == {5 * SpexDen + d : d \in (-3)..3}

\* the Spex500 driver after set_up, its motor at rest
SpexInit ==
    /\ InitWith(FALSE)
    /\ serial_number = 1
    /\ NoSharing
    /\ NoLake
    /\ NoKonica
    /\ \E p \in SpexPositions :
          spex = [pc |-> "idle", position |-> p, busy |-> FALSE, moving |-> 0,
                  Hinti |-> 0, Froundi |-> 0, polls |-> 0, log |-> <<>>]

SpexNext ==
    \/ \E f \in SpexWavelengths : Spex500_run(f)
    \/ busy_status
    \/ Spex500_backlash
    \/ MotorStops

SpexSpec == SpexInit /\ [][SpexNext]_vars

\* setpoints 300, 300.25 and 300.5 K
Setpoints == {300 * LakeDen, 300 * LakeDen + (LakeDen \div 4), 300 * LakeDen + (LakeDen \div 2)}

\* the LakeShore driver after gpib_set_up, the sample at 300 K
LakeInit ==
    /\ InitWith(FALSE)
    /\ serial_number = 1
    /\ NoSharing
    /\ NoSpex
    /\ NoKonica
    /\ \E sp \in Setpoints :
          lake = [pc |-> "idle", setp |-> sp, sample |-> 300 * LakeDen,
                  Tsp |-> 0, roundTsp |-> 0, T |-> 0, roundT |-> 0]

LakeNext ==
    \/ \E sp \in Setpoints : setpoint(sp)
    \/ temperature_check
    \/ LakeWhile
    \/ SampleDrifts

LakeSpec == LakeInit /\ [][LakeNext]_vars

\* what the instrument may send: some codes of error_check_code, or nothing
Replies == {Reply("OK00"), Reply("ER00"), Reply("ER01"), NoReply}

\* the KonicaMinolta driver after rs232_set_up
KonicaInit ==
    /\ InitWith(FALSE)
    /\ serial_number = 1
    /\ NoSharing
    /\ NoSpex
    /\ NoLake
    /\ konica = [cal |-> "", color_mode |-> "", resp |-> "", cal_setng |-> "",
                 meas_setng |-> "", resp_setng |-> "", result |-> <<>>]

KonicaNext ==
    \E calib \in calibration_keys, color_mode \in meas_mode_keys, resp \in response_keys,
       r1 \in Replies, r2 \in Replies, r3 \in Replies :
          KonicaMinolta_start_up(calib, color_mode, resp, r1, r2, r3)

KonicaSpec == KonicaInit /\ [][KonicaNext]_vars

-----------------------------------------------------------------------------
(* Properties *)

Moves == {"calibration", "start_up"}

\* every pin of the motor's pin set is a pin of the port the motor is bound to
PinSetOnPort == \A i \in 1..Len(parallel_pin_set) : parallel_pin_set[i] \in PortPins(address)

\* the step amount of a move, from its arguments (numerator over WlDen)
Delta == (target_wl - display_wl) * step_factor

\* C1: for a pin set P of length 4 (its pins on the port) and n >= 0, clockwise(n)
\* makes exactly n activations, the k-th (from 0) of pin reverse(P)[k mod 4]; n = 0
\* makes none.
C1_ClockwiseSequence ==
    (op = "clockwise" /\ Len(parallel_pin_set) = 4 /\ PinSetOnPort /\ number_of_steps >= 0)
    => /\ Len(writes) * WlDen <= number_of_steps
       /\ \A k \in 1..Len(writes) :
            /\ writes[k].pin = parallel_pin_set[4 - ((k - 1) % 4)]
            /\ writes[k].via = "clockwise"
       /\ pc = "idle" => (error = "none" /\ Len(writes) * WlDen = number_of_steps)

C1_Witness ==
    /\ op = "clockwise" /\ pc = "idle" /\ error = "none"
    /\ Len(parallel_pin_set) = 4 /\ PinSetOnPort
    /\ Len(writes) > 4

\* C2: for a pin set P of length 4 (its pins on the port) and n >= 0,
\* counterclockwise(n) makes exactly n activations, the k-th (from 0) of pin P[k mod 4].
C2_CounterclockwiseSequence ==
    (op = "counterclockwise" /\ Len(parallel_pin_set) = 4 /\ PinSetOnPort
       /\ number_of_steps >= 0)
    => /\ Len(writes) * WlDen <= number_of_steps
       /\ \A k \in 1..Len(writes) :
            /\ writes[k].pin = parallel_pin_set[((k - 1) % 4) + 1]
            /\ writes[k].via = "counterclockwise"
       /\ pc = "idle" => (error = "none" /\ Len(writes) * WlDen = number_of_steps)

C2_Witness ==
    /\ op = "counterclockwise" /\ pc = "idle" /\ error = "none"
    /\ Len(parallel_pin_set) = 4 /\ PinSetOnPort
    /\ Len(writes) > 4

\* C3: a move with negative delta first runs the counterclockwise sequence of |delta|
\* steps and then, after it has finished, backlash.
C3_NegativeMoveThenBacklash ==
    (op \in Moves /\ "step_factor" \in attrs /\ Delta < 0 /\ pc = "idle")
    => /\ Len(calls) >= 2
       /\ calls[1] = [m |-> "counterclockwise", n |-> -Delta]
       /\ calls[2].m = "backlash"
       /\ \A k \in 1..Len(writes) :
            k * WlDen <= -Delta => writes[k].via = "counterclockwise"

\* C4: backlash() emits exactly 2 * 5 * step_factor activations, the first
\* 5 * step_factor of the counterclockwise sequence, the rest of the clockwise sequence.
C4_BacklashActivations ==
    (op = "backlash" /\ "step_factor" \in attrs /\ pc = "idle")
    => /\ Len(writes) = 2 * 5 * step_factor
       /\ \A k \in 1..Len(writes) :
            writes[k].via = IF k <= 5 * step_factor THEN "counterclockwise" ELSE "clockwise"

C6_NegativeMoveTotal ==
    (op \in Moves /\ "step_factor" \in attrs /\ Delta < 0 /\ Delta % WlDen = 0
       /\ pc = "idle")
    => /\ Len(writes) * WlDen = -Delta + 2 * 5 * step_factor * WlDen
       /\ (step_factor = 24 /\ display_wl = 100 * WlDen /\ target_wl = 99 * WlDen)
          => Len(writes) = 264

\* C7: a move with zero delta is a no-op: no sequencer call, no activation, no hold,
\* nothing written to the port, and the call is over at once.
C7_ZeroDeltaNoOp ==
    (op \in Moves /\ target_wl = display_wl)
    => /\ pc = "idle"
       /\ calls = <<>>
       /\ writes = <<>>
       /\ holds = 0
       /\ "step_factor" \in attrs => error = "none"

C7_Witness ==
    /\ op = "calibration" /\ "step_factor" \in attrs
    /\ display_wl = 100 * WlDen /\ target_wl = 100 * WlDen
    /\ port # <<>>

\* C8: step_backward(s) runs the counterclockwise sequence of s * step_factor steps
\* and then backlash; step_forward(s) runs only the clockwise sequence of
\* s * step_factor steps and never backlash.
C8_StepBackwardBacklashStepForwardNone ==
    /\ (op = "step_backward" /\ "step_factor" \in attrs /\ pc = "idle")
       => /\ Len(calls) >= 2
          /\ calls[1] = [m |-> "counterclockwise", n |-> spectral_step * step_factor]
          /\ calls[2].m = "backlash"
    /\ (op = "step_forward" /\ "step_factor" \in attrs)
       => /\ \A k \in 1..Len(calls) : calls[k].m = "clockwise"
          /\ pc = "idle" => calls = <<[m |-> "clockwise", n |-> spectral_step * step_factor]>>

\* C9: pin(p) writes the value that, by the documented pin table, puts pin p high and
\* every other pin of the port low.
C9_PinWritesOnlyThatPinHigh ==
    \A k \in 1..Len(writes) : HighPins(address, writes[k].val) = {writes[k].pin}

\* C10 as stated: a sequencer call (of n > 0 steps) on a motor whose 4-pin set holds
\* an identifier that is not a pin of the port is rejected before any activation is
\* written.
C10_RejectedBeforeAnyWrite ==
    (op \in {"clockwise", "counterclockwise"} /\ address \in {addr_0x378, addr_0x37f}
       /\ Len(parallel_pin_set) = 4 /\ ~PinSetOnPort /\ number_of_steps > 0)
    => /\ writes = <<>>
       /\ pc = "idle" => error # "none"

\* C10 as amended: the pin set is not checked before the sequence starts.  On a port
\* at 0x378 or 0x37f the call fails with ValueError at the step that selects a pin
\* that is not of the port: no value is ever written for such a pin, the writes and
\* holds of the steps before it have been made, and only when that pin is the first
\* one selected (and n > 0) does the call fail before any write.
C10_InvalidPinFailsAtItsStep ==
    (op \in {"clockwise", "counterclockwise"} /\ address \in {addr_0x378, addr_0x37f})
    => /\ \A k \in 1..Len(writes) : writes[k].pin \in PortPins(address)
       /\ (pc = "idle" /\ error = "ValueError")
          => /\ pin \notin PortPins(address)
             /\ Len(writes) = step_number
             /\ holds = step_number
       /\ (pc = "idle" /\ number_of_steps > 0 /\ Len(parallel_pin_set) > 0
             /\ (IF op = "clockwise" THEN parallel_pin_set[Len(parallel_pin_set)]
                 ELSE parallel_pin_set[1]) \notin PortPins(address))
          => (error = "ValueError" /\ writes = <<>>)

C10_Witness ==
    /\ op \in {"clockwise", "counterclockwise"} /\ address \in {addr_0x378, addr_0x37f}
    /\ pc = "idle" /\ error = "ValueError"
    /\ Len(writes) > 0

C12_StartUpAfterConstruction ==
    (serial_number \in {6902, 34575} /\ op = "start_up" /\ pc = "idle" /\ attrs = {})
    => /\ error = "none"
       /\ Len(writes) * WlDen
            = Abs(target_wl - display_wl) * (IF serial_number = 6902 THEN 24 ELSE 120)

\* C13 as stated: the pin set of every StepMotor has length exactly 4 in every
\* reachable state.
C13_PinSetLengthFour == has_motor => Len(parallel_pin_set) = 4

\* C13 as amended: the pin set of a StepMotor keeps the length and the order it was
\* given at construction, whatever that length is (the constructor does not check
\* it); the motors the controller builds have 4 pins.
C13_PinSetAsConstructed ==
    has_motor
    => /\ Len(parallel_pin_set) = Len(constructed.pins)
       /\ \A i \in 1..Len(parallel_pin_set) : parallel_pin_set[i] = constructed.pins[i]
       /\ serial_number # 0 => Len(parallel_pin_set) = 4

C13_Witness ==
    /\ has_motor /\ serial_number = 0 /\ Len(parallel_pin_set) = 3
    /\ op = "clockwise" /\ pc = "idle" /\ Len(writes) = 2

\* C14: no operation changes the motor's pin set, its pulse width, the port address
\* or the controller's step factor: after any sequence of operations they equal
\* their values at construction; clockwise does not reverse the stored pin set.
C14_FieldsAsConstructed ==
    /\ has_motor
       => /\ parallel_pin_set = constructed.pins
          /\ step_time = constructed.step_time
          /\ address = constructed.address
    /\ "step_factor" \in attrs => step_factor = constructed.step_factor

C14_Witness ==
    /\ serial_number = 34575 /\ op = "clockwise" /\ pc = "idle" /\ Len(writes) = 3
    /\ parallel_pin_set = <<3, 2, 4, 5>> /\ step_factor = 120 /\ port = <<1>>

\* C15: each step of a sequencer call makes exactly one port write followed by exactly
\* one hold of step_time before the next write, so a call of n steps makes n writes
\* and n holds (n * step_time in total).
C15_OneWriteOneHoldPerStep ==
    (has_motor /\ Len(parallel_pin_set) = 4 /\ PinSetOnPort)
    => /\ Len(writes) = IF pc = "sleep" THEN holds + 1 ELSE holds
       /\ op \in {"clockwise", "counterclockwise"}
          => /\ holds = step_number
             /\ (pc = "idle" /\ number_of_steps >= 0)
                => /\ Len(writes) * WlDen = number_of_steps
                   /\ holds * WlDen = number_of_steps
                   /\ holds * step_time * WlDen = number_of_steps * step_time

C15_Witness ==
    /\ op = "counterclockwise" /\ pc = "sleep" /\ PinSetOnPort
    /\ Len(parallel_pin_set) = 4 /\ Len(writes) = 3 /\ holds = 2

\* C16: the sequencer never writes the all-low value, every value it writes is the
\* activation value of a single pin, and after clockwise(n) or counterclockwise(n)
\* with n > 0 has returned the port still holds the last activated pin high.
C16_NoOffWriteLastPinStaysHigh ==
    (op \in {"clockwise", "counterclockwise"} /\ address \in {addr_0x378, addr_0x37f})
    => /\ \A k \in 1..Len(writes) :
            /\ writes[k].val # AllPinLowValue(address)
            /\ writes[k].val \in Range(IF address = addr_0x378 THEN dec_0x378 ELSE dec_0x37f)
       /\ (pc = "idle" /\ error = "none" /\ writes # <<>>)
          => /\ port = <<writes[Len(writes)].val>>
             /\ writes[Len(writes)].pin \in HighPins(address, port[1])

\* C19 as stated, for a positive delta: the move turns a fractional delta into a
\* whole step count by rounding or truncating, so the number of activations emitted
\* is round(delta) (to the nearest, a tie either way) or trunc(delta).
C19_RoundedOrTruncated ==
    (op \in Moves /\ "step_factor" \in attrs /\ Delta > 0 /\ Delta % WlDen # 0
       /\ pc = "idle")
    => \/ Len(writes) = Delta \div WlDen
       \/ /\ 2 * (Delta % WlDen) >= WlDen
          /\ Len(writes) = (Delta \div WlDen) + 1

\* C19 as amended: a positive delta is neither rounded nor truncated; it is passed
\* as it is to clockwise, whose loop runs while step_number < delta, so the number
\* of activations emitted is ceil(delta).
C19_PositiveDeltaCeiling ==
    (op \in Moves /\ "step_factor" \in attrs /\ Delta > 0 /\ pc = "idle")
    => /\ error = "none"
       /\ calls = <<[m |-> "clockwise", n |-> Delta]>>
       /\ Len(writes) = (Delta + WlDen - 1) \div WlDen
       /\ (Len(writes) - 1) * WlDen < Delta
       /\ Delta <= Len(writes) * WlDen

C19_Witness ==
    /\ op = "calibration" /\ pc = "idle" /\ step_factor = 24
    /\ target_wl - display_wl = 1
    /\ 2 * (Delta % WlDen) < WlDen /\ Delta % WlDen # 0
    /\ Len(writes) = (Delta \div WlDen) + 1

\* C17: every operation goes idle -> moving -> idle: each clockwise /
\* counterclockwise call, and so each calibration, start_up, backlash, step_forward
\* and step_backward, eventually ends and leaves the controller idle.
C17_EveryCallEnds == (pc # "idle") ~> (pc = "idle")

C17_Witness ==
    /\ op = "step_forward" /\ pc = "idle" /\ error = "none"
    /\ Len(writes) > 4 /\ holds = Len(writes)

\* clockwise(n) has run, then counterclockwise(n), on a 4-pin motor whose pins are of
\* its port
RoundTrip ==
    /\ keep_prev /\ prev # <<>> /\ prev.op = "clockwise" /\ prev.error = "none"
    /\ op = "counterclockwise" /\ pc = "idle" /\ error = "none"
    /\ prev.n = number_of_steps /\ number_of_steps >= 0
    /\ Len(parallel_pin_set) = 4 /\ PinSetOnPort

\* the counterclockwise call's activations are the clockwise call's in reverse order
ReverseOfPrev ==
    /\ Len(writes) = Len(prev.pins)
    /\ \A k \in 1..Len(writes) : writes[k].pin = prev.pins[Len(prev.pins) + 1 - k]

\* the two calls visit the same set of pins
SamePinsAsPrev ==
    {writes[k].pin : k \in 1..Len(writes)} = {prev.pins[k] : k \in 1..Len(prev.pins)}

\* C18 as stated: for every 4-pin set and every n >= 0, clockwise(n) followed by
\* counterclockwise(n) visit the same set of pins, and the counterclockwise
\* activation sequence is the clockwise one in reverse order.
C18_RoundTripEveryN == RoundTrip => (ReverseOfPrev /\ SamePinsAsPrev)

\* C18 as amended: both calls make n activations; the counterclockwise sequence is the
\* reverse of the clockwise one when n is a multiple of 4 (0 included), and, the 4
\* pins being distinct, only then; the two calls visit the same set of pins when
\* n >= 4 or n = 0.
C18_RoundTripMultiplesOfFour ==
    RoundTrip
    => /\ Len(writes) * WlDen = number_of_steps
       /\ Len(prev.pins) = Len(writes)
       /\ Len(writes) % 4 = 0 => (ReverseOfPrev /\ SamePinsAsPrev)
       /\ (Len(writes) % 4 # 0 /\ Cardinality(Range(parallel_pin_set)) = 4)
          => ~ReverseOfPrev
       /\ Len(writes) >= 4 => SamePinsAsPrev

C18_Witness == RoundTrip /\ Len(writes) = 8 /\ ReverseOfPrev

\* motor i is holding the pulse of its activation
Holding(i) == motors[i].pc = "sleep"

\* the pins the shared port holds high
SharedHighPins == IF shared_port = <<>> THEN {} ELSE HighPins(SharedAddress, shared_port[1])

\* C20: two StepMotor controllers bound to the same port address, their steps
\* interleaved: every activation overwrites the whole port value (the port holds high
\* the pin of the last activation and no other), no guard stops a controller's
\* activation while the other one holds its pulse, and so a controller that is holding
\* its pulse has its pin high only if the last activation was of that pin.
C20_SharedPortOverwritten ==
    /\ last_write # <<>>
       => /\ shared_port = <<dec_0x378[Index(pin_set_0x378, last_write.pin)]>>
          /\ SharedHighPins = {last_write.pin}
    /\ \A i \in Motors :
          /\ motors[i].pc = "pin" => ENABLED MotorPin(i)
          /\ Holding(i) => /\ last_write # <<>>
                           /\ (motors[i].pin \in SharedHighPins) = (last_write.pin = motors[i].pin)

\* one controller is still holding the pulse of its activation while the port no
\* longer holds its pin high: the other controller has written since
C20_Witness ==
    \E i \in Motors :
        /\ Holding(i)
        /\ last_write.motor # i
        /\ motors[i].pin \notin SharedHighPins
        /\ SharedHighPins # {}

\* C21: at a known address all_pin_low writes the value that, by the documented pin
\* table, puts every pin of the port low (0 at 0x378, 11 at 0x37f), and all_pin_high
\* the value that puts every pin of the port high (255 at 0x378, 4 at 0x37f).
C21_AllPinValuesMatchTable ==
    (pc = "idle" /\ address \in {addr_0x378, addr_0x37f})
    => /\ op = "all_pin_low"
          => /\ Len(level_writes) = 1
             /\ level_writes[1] = (IF address = addr_0x378 THEN 0 ELSE 11)
             /\ port = <<level_writes[1]>>
             /\ HighPins(address, port[1]) = {}
       /\ op = "all_pin_high"
          => /\ Len(level_writes) = 1
             /\ level_writes[1] = (IF address = addr_0x378 THEN 255 ELSE 4)
             /\ port = <<level_writes[1]>>
             /\ HighPins(address, port[1]) = PortPins(address)

C21_Witness ==
    /\ op = "all_pin_high" /\ pc = "idle" /\ address = addr_0x37f
    /\ port = <<4>> /\ HighPins(address, port[1]) = {1, 14, 16, 17}

\* two direct calls of the same sequencer method have run one after the other, without
\* error, on a motor with 4 distinct pins of its port
SameDirectionPair ==
    /\ keep_prev /\ prev # <<>> /\ prev.op = op /\ prev.error = "none"
    /\ pc = "idle" /\ error = "none"
    /\ prev.n >= 0 /\ number_of_steps >= 0
    /\ Len(parallel_pin_set) = 4 /\ PinSetOnPort
    /\ Cardinality(Range(parallel_pin_set)) = 4

\* the activations of one call of method m with n steps on a 4-pin set
OneCall(m, n) == [k \in 1..n |-> Traversed(m, parallel_pin_set)[((k - 1) % 4) + 1]]

\* the activations of the two calls, one after the other
BothCalls == prev.pins \o [k \in 1..Len(writes) |-> writes[k].pin]

\* C22: the sequencer phase is not carried across calls: every call starts at the
\* first pin of its traversed sequence, so clockwise(a) followed by clockwise(b)
\* emits the activation sequence of clockwise(a + b) if and only if a is a multiple
\* of 4 or b = 0 (likewise for counterclockwise).
C22_PhaseNotCarried ==
    SameDirectionPair
    => /\ number_of_steps > 0 => writes[1].pin = Traversed(op, parallel_pin_set)[1]
       /\ (BothCalls = OneCall(op, (prev.n + number_of_steps) \div WlDen))
          <=> ((prev.n \div WlDen) % 4 = 0 \/ number_of_steps = 0)

C22_Witness ==
    /\ SameDirectionPair /\ op = "clockwise"
    /\ prev.n = 2 * WlDen /\ number_of_steps = 3 * WlDen
    /\ BothCalls # OneCall(op, 5)

\* C23: the final approach is always clockwise: when a calibration, start_up,
\* step_forward or step_backward with a non-zero step count and a positive step factor
\* has ended, the last pin activation it emitted belongs to a clockwise sequence.
C23_FinalApproachClockwise ==
    (op \in {"calibration", "start_up", "step_forward", "step_backward"}
       /\ "step_factor" \in attrs /\ step_factor > 0 /\ cal # 0 /\ pc = "idle")
    => /\ error = "none"
       /\ writes # <<>>
       /\ writes[Len(writes)].via = "clockwise"

\* the positions (1-based) of the traversed sequence of the running or last sequencer
\* method whose pin is not a pin of the port
BadPositions ==
    {k \in 1..Len(Traversed(method, parallel_pin_set)) :
        Traversed(method, parallel_pin_set)[k] \notin PortPins(address)}

\* the 0-based position of the first such pin
FirstBad == (CHOOSE k \in BadPositions : \A l \in BadPositions : k <= l) - 1

\* C24: on a port of a known address, when the traversed sequence holds at position j
\* (0-based, the first such) an identifier that is not a pin of the port, the failure
\* is raised by the port layer at the first step that selects that pin and that step
\* writes nothing: a call of n <= j steps ends without error, a call of n > j steps
\* has written the j preceding activations when it fails, and the port keeps the last
\* of them.
C24_FailsAtFirstBadPinAfterItsPredecessors ==
    (op \in {"clockwise", "counterclockwise"} /\ address \in {addr_0x378, addr_0x37f}
       /\ BadPositions # {} /\ pc = "idle")
    => IF number_of_steps <= FirstBad * WlDen
       THEN /\ error = "none"
            /\ Len(writes) * WlDen = (IF number_of_steps < 0 THEN 0 ELSE number_of_steps)
       ELSE /\ error = "ValueError"
            /\ Len(writes) = FirstBad
            /\ holds = FirstBad
            /\ \A k \in 1..FirstBad :
                  writes[k].pin = Traversed(method, parallel_pin_set)[k]
            /\ FirstBad > 0 => port = <<writes[FirstBad].val>>

C24_Witness ==
    /\ op = "counterclockwise" /\ address = addr_0x378 /\ pc = "idle"
    /\ parallel_pin_set = <<2, 3, 10, 5>> /\ number_of_steps = 4 * WlDen
    /\ error = "ValueError" /\ Len(writes) = 2 /\ port = <<2>>

\* C25: on a port constructed with an address other than 0x378 and 0x37f, pin,
\* all_pin_low and all_pin_high write nothing and raise nothing, so a StepMotor (of 4
\* pins) on such an address completes clockwise(n) and counterclockwise(n), holding n
\* pulse times, while nothing is written to the port.
C25_UnknownAddressWritesNothing ==
    (has_motor /\ address \notin {addr_0x378, addr_0x37f})
    => /\ port = <<>> /\ writes = <<>> /\ level_writes = <<>>
       /\ op \in {"all_pin_low", "all_pin_high"} => error = "none"
       /\ (op \in {"clockwise", "counterclockwise"} /\ Len(parallel_pin_set) = 4)
          => /\ error = "none"
             /\ holds = step_number
             /\ pc = "idle"
                => holds * WlDen = (IF number_of_steps < 0 THEN 0 ELSE number_of_steps)

C25_Witness ==
    /\ address = addr_other /\ op = "clockwise" /\ pc = "idle"
    /\ parallel_pin_set = <<2, 3, 4, 5>> /\ holds = 5 /\ port = <<>>

\* the pins a direct sequencer call has activated
ActivatedPins == {writes[k].pin : k \in 1..Len(writes)}

\* C26: a pin set whose length is not 4 is accepted at construction.  With more than 4
\* pins (of the port) counterclockwise only ever activates the first four and clockwise
\* the last four; with L < 4 pins (L >= 1) a call of n steps fails with an index fault
\* exactly when n >= L, after L activations have been written.
C26_OtherLengthsAccepted ==
    (op \in {"clockwise", "counterclockwise"} /\ serial_number = 0 /\ PinSetOnPort
       /\ Len(parallel_pin_set) # 4 /\ Len(parallel_pin_set) >= 1)
    => LET L == Len(parallel_pin_set) IN
       /\ constructed.pins = parallel_pin_set
       /\ L > 4
          => /\ error = "none"
             /\ op = "counterclockwise"
                => ActivatedPins \subseteq {parallel_pin_set[k] : k \in 1..4}
             /\ op = "clockwise"
                => ActivatedPins \subseteq {parallel_pin_set[k] : k \in (L - 3)..L}
             /\ pc = "idle" => Len(writes) * WlDen
                                 = (IF number_of_steps < 0 THEN 0 ELSE number_of_steps)
       /\ (L < 4 /\ pc = "idle")
          => /\ (error = "IndexError") = (number_of_steps >= L * WlDen)
             /\ error \in {"none", "IndexError"}
             /\ error = "IndexError" => Len(writes) = L
             /\ error = "none" => Len(writes) * WlDen
                                    = (IF number_of_steps < 0 THEN 0 ELSE number_of_steps)

C26_Witness ==
    /\ op = "clockwise" /\ pc = "idle" /\ error = "none"
    /\ parallel_pin_set = <<2, 3, 4, 5, 6, 7, 8, 9>> /\ address = addr_0x378
    /\ Len(writes) = 8 /\ ActivatedPins = {6, 7, 8, 9}

\* C27: a negative step count is silently treated as zero: clockwise(n) and
\* counterclockwise(n) with n < 0 emit no activation and raise no error, so
\* step_forward with a negative spectral step emits nothing and step_backward with a
\* negative spectral step emits only the backlash activations.
C27_NegativeCountAsZero ==
    /\ (op \in {"clockwise", "counterclockwise"} /\ Len(parallel_pin_set) = 4
          /\ number_of_steps < 0)
       => (writes = <<>> /\ holds = 0 /\ error = "none")
    /\ (op = "step_forward" /\ "step_factor" \in attrs /\ spectral_step < 0)
       => (writes = <<>> /\ holds = 0 /\ error = "none")
    /\ (op = "step_backward" /\ "step_factor" \in attrs /\ spectral_step < 0
          /\ pc = "idle")
       => /\ error = "none"
          /\ Len(writes) = 2 * 5 * step_factor
          /\ \E k \in 1..Len(calls) : calls[k].m = "backlash"

\* the relative moves run has commanded, and the positions of the F0 commands in the log
SpexMovePositions == {k \in 1..Len(spex.log) : spex.log[k].cmd = "F0"}

RECURSIVE SumMoves(_)
SumMoves(k) == IF k = 0 THEN 0
               ELSE (IF spex.log[k].cmd = "F0" THEN spex.log[k].steps ELSE 0) + SumMoves(k - 1)

\* run has returned
SpexReturned == spex.pc = "idle" /\ spex.log # <<>>

\* C28: in Spex500.run(F), when the target step position round(F * 4000) is below the
\* position read from the controller, the driver commands a relative move of
\* target - position - 20000 steps, polls the busy status until the answer is "oz" and
\* only then commands the return move of +20000 steps, again followed by a busy poll
\* that ends on "oz" before run returns; the moves of one run sum to target - position;
\* when the target is not below the position a single move is commanded.
C28_BacklashMoveAfterBusyPoll ==
    spex.log # <<>>
    => LET log == spex.log
           Fin == spex.Froundi - spex.Hinti
       IN /\ log[1] = [cmd |-> "F0", steps |-> IF Fin < 0 THEN Fin - 20000 ELSE Fin]
          /\ Fin >= 0 => SpexMovePositions = {1}
          /\ \A k \in SpexMovePositions \ {1} :
                /\ Fin < 0
                /\ log[k].steps = 20000
                /\ k > 2
                /\ log[k - 1] = [cmd |-> "E", status |-> "oz"]
                /\ \A l \in SpexMovePositions : l <= k
          /\ \A k \in 1..Len(log) :
                (log[k] = [cmd |-> "E", status |-> "oz"] /\ k < Len(log))
                => log[k + 1].cmd = "F0"
          /\ SpexReturned
             => /\ log[Len(log)] = [cmd |-> "E", status |-> "oz"]
                /\ Cardinality(SpexMovePositions) = (IF Fin < 0 THEN 2 ELSE 1)
                /\ SumMoves(Len(log)) = Fin
                /\ ~spex.busy

C28_Witness ==
    /\ SpexReturned
    /\ spex.Froundi < spex.Hinti
    /\ Cardinality(SpexMovePositions) = 2
    /\ \E k \in 1..Len(spex.log) : spex.log[k] = [cmd |-> "E", status |-> "oq"]
    /\ spex.position = spex.Froundi

\* C29: temperature_check ends as soon as a Kelvin reading of input B, rounded to one
\* decimal, lies within 0.1 K of the setpoint rounded to one decimal, for every
\* setpoint, non-integer ones included: a reading that rounds to the rounded setpoint
\* itself makes the next loop test fail.
C29_ExitsOnReadingAtSetpoint ==
    (lake.pc = "while" /\ RoundToTenth(lake.T) = lake.roundTsp)
    => Far(lake.roundTsp, lake.roundT) = {FALSE}

\* C30: KonicaMinolta.start_up returns 'OK' exactly when the instrument answers 'OK00'
\* to all three settings; whenever it does not return 'OK', the returned triple holds
\* at least one status code different from 'OK00'.
C30_OKExactlyWhenAllOK00 ==
    konica.result # <<>>
    => /\ (konica.result = <<"OK">>)
          <=> (konica.cal_setng = "OK00" /\ konica.meas_setng = "OK00"
                 /\ konica.resp_setng = "OK00")
       /\ konica.result # <<"OK">>
          => \E k \in 1..Len(konica.result) : konica.result[k] # "OK00"

====
